---------------------------- MODULE Spec2Model ----------------------------
(***************************************************************************)
(* Verification model of src/main.py (image stitching): the RANSAC inlier  *)
(* selection get_inliers, the homography estimation, warp_image with its   *)
(* batched channel fill, the compositing of stitch_2_images and the chain  *)
(* of pairwise stitches of stitch_N_images.                                *)
(*                                                                         *)
(* Each function of the program has its own group of variables and its own *)
(* specification (SpecStitchN, SpecWarp, SpecRansac); the groups a         *)
(* specification does not use stay at their idle values.                   *)
(***************************************************************************)
EXTENDS Integers, Sequences, FiniteSets, TLC

VARIABLES
    \* stitch_N_images
    paths,      \* the list `paths`, mutated in place (main.py:412)
    files,      \* the files on disk: name -> image stored under that name
    i,          \* the loop variable of main.py:409
    res,        \* the local `res` of stitch_N_images
    log,        \* one record per call of stitch_2_images, in call order
    paths0,     \* the argument `paths` as the caller passed it
    spc,        \* position in stitch_N_images
    \* warp_image and the compositing of stitch_2_images
    image_shape,    \* <<image.shape[0], image.shape[1]>> of the warped image
    image_2_shape,  \* <<image_2.shape[0], image_2.shape[1]>>
    H,              \* the homography, as the integer matrix M with H = M / M[3][3]
    H_inv,          \* adj(M): H_inv of main.py:222 is adj(M) / adj(M)[3][3]
    box,            \* [min_u, max_u, min_v, max_v] of main.py:232-235
    target_image,   \* [row, col, channel] -> value written (main.py:242)
    nwrites,        \* [row, col, channel] -> number of writes so far
    channel,        \* the channel fill_channel is filling (main.py:264-266)
    batch,          \* the loop variable i of main.py:252
    canvas,         \* the rectangles of main.py:381-391
    wpc,            \* position in warp_image / stitch_2_images
    \* get_inliers and the estimation that follows it in stitch_2_images
    src_points,     \* the argument src_points: a sequence of points <<x, y>>
    target_points,  \* the argument target_points
    N,              \* the argument N
    T_arg,          \* the argument T as the caller passed it
    T,              \* the local T after main.py:136
    samples_indices_history,    \* main.py:138: a sequence of index sets
    num_inliers_history,        \* main.py:140
    round,          \* the number of completed passes of the loop at main.py:154
    round_log,      \* one record per pass: what the pass recorded
    fit_calls,      \* one record per call of compute_homography_mat
    best_indices,   \* main.py:169
    inlier_src,     \* the first returned array (main.py:170)
    inlier_target,  \* the second returned array
    H_fit,          \* H of main.py:375
    rpc             \* position in get_inliers / stitch_2_images

stitchVars == <<paths, files, i, res, log, paths0, spc>>

warpVars == <<image_shape, image_2_shape, H, H_inv, box, target_image, nwrites,
              channel, batch, canvas, wpc>>

ransacVars == <<src_points, target_points, N, T_arg, T,
                samples_indices_history, num_inliers_history, round, round_log,
                fit_calls, best_indices, inlier_src, inlier_target, H_fit, rpc>>

vars == <<stitchVars, warpVars, ransacVars>>

--------------------------------------------------------------------------
(* Generic helpers *)

Range(f) == {f[x] : x \in DOMAIN f}

Max2(a, b) == IF a >= b THEN a ELSE b

Min2(a, b) == IF a <= b THEN a ELSE b

Abs(a) == IF a < 0 THEN -a ELSE a

\* F(x) and F(x, y), with the arguments evaluated once however often F uses
\* them.
With(x, F(_)) == CHOOSE r \in {F(v) : v \in {x}} : TRUE

With2(x, y, F(_, _)) == CHOOSE r \in {F(v, w) : v \in {x}, w \in {y}} : TRUE

--------------------------------------------------------------------------
(* Idle values of the variable groups *)

StitchIdle ==
    /\ paths = <<>>
    /\ files = <<>>
    /\ i = 0
    /\ res = <<>>
    /\ log = <<>>
    /\ paths0 = <<>>
    /\ spc = "idle"

WarpIdle ==
    /\ image_shape = <<0, 0>>
    /\ image_2_shape = <<0, 0>>
    /\ H = <<>>
    /\ H_inv = <<>>
    /\ box = <<>>
    /\ target_image = <<>>
    /\ nwrites = <<>>
    /\ channel = 0
    /\ batch = 0
    /\ canvas = <<>>
    /\ wpc = "idle"

RansacIdle ==
    /\ src_points = <<>>
    /\ target_points = <<>>
    /\ N = 0
    /\ T_arg = 0
    /\ T = 0
    /\ samples_indices_history = <<>>
    /\ num_inliers_history = <<>>
    /\ round = 0
    /\ round_log = <<>>
    /\ fit_calls = {}
    /\ best_indices = {}
    /\ inlier_src = <<>>
    /\ inlier_target = <<>>
    /\ H_fit = <<>>
    /\ rpc = "idle"

--------------------------------------------------------------------------
(* stitch_N_images (main.py:397-414)                                       *)
(*                                                                         *)
(* An image is abstracted to its identity and to the set of original input *)
(* files its pixels were computed from.                                    *)

\* Upper bound on len(paths).
MaxImages == 4

\* File names the caller may pass; "images12.png" is also the name the loop
\* saves every intermediate canvas under.
FileNames == {"1.png", "2.png", "3.png", "4.png", "5.png", "images12.png"}

\* 'images'+str(1)+str(2)+'.png' (main.py:411): the same name in every pass.
SaveName == "images12.png"

OriginalImage(name) == [id |-> <<"file", name, 0>>, deps |-> {name}]

\* All sequences of pairwise distinct file names of length n.
DistinctSeqs(n) ==
    {q \in [1..n -> FileNames] : \A a, b \in 1..n : a # b => q[a] # q[b]}

\* stitch_2_images(path_1, path_2): reads both files (main.py:324-325) and
\* returns a canvas computed from both (main.py:379-395).  k numbers the call.
stitch_2_images(path_1, path_2, k) ==
    [id |-> <<"canvas", "", k>>,
     deps |-> files[path_1].deps \cup files[path_2].deps]

InitStitch ==
    /\ \E n \in 2..MaxImages : paths \in DistinctSeqs(n)
    /\ files = [nm \in FileNames |-> OriginalImage(nm)]
    /\ i = 0
    /\ res = [id |-> <<"unbound", "", 0>>, deps |-> {}]
    /\ log = <<>>
    /\ paths0 = paths
    /\ spc = "loop"
    /\ WarpIdle
    /\ RansacIdle

\* One pass of the loop at main.py:409-413.  Python's paths[i] is paths[i+1]
\* here (sequences are 1-based).
StitchPass ==
    /\ spc = "loop"
    /\ i < Len(paths) - 1
    /\ LET path_1 == paths[i + 2]
           path_2 == paths[i + 1]
           stitched == stitch_2_images(path_1, path_2, i + 1)
       IN /\ res' = stitched
          /\ log' = Append(log, [in1 |-> files[path_1], in2 |-> files[path_2],
                                 out |-> stitched])
          /\ paths' = [paths EXCEPT ![i + 1] = SaveName]
          /\ files' = [files EXCEPT ![SaveName] = stitched]
    /\ i' = i + 1
    /\ UNCHANGED <<paths0, spc, warpVars, ransacVars>>

\* return res (main.py:414)
StitchReturn ==
    /\ spc = "loop"
    /\ i >= Len(paths) - 1
    /\ spc' = "done"
    /\ UNCHANGED <<paths, files, i, res, log, paths0, warpVars, ransacVars>>

NextStitch == StitchPass \/ StitchReturn

SpecStitchN == InitStitch /\ [][NextStitch]_vars

--------------------------------------------------------------------------
(* Exact rational arithmetic.  A rational is a pair <<n, d>> with d # 0;   *)
(* the program's floats are modelled by their exact values.                *)

RatNorm(r) == IF r[2] < 0 THEN <<-r[1], -r[2]>> ELSE r

RatLeq(a, b) ==
    LET x == RatNorm(a)
        y == RatNorm(b)
    IN x[1] * y[2] <= y[1] * x[2]

RatMin(S) == CHOOSE a \in S : \A b \in S : RatLeq(a, b)

RatMax(S) == CHOOSE a \in S : \A b \in S : RatLeq(b, a)

Floor(r) == LET x == RatNorm(r) IN x[1] \div x[2]

Ceil(r) == LET x == RatNorm(r) IN -((-x[1]) \div x[2])

\* Python's int() of a float (main.py:232-235, 250): truncation toward zero.
PyInt(r) ==
    LET x == RatNorm(r)
    IN IF x[1] >= 0 THEN x[1] \div x[2] ELSE -((-x[1]) \div x[2])

--------------------------------------------------------------------------
(* 3x3 matrices, as sequences of rows *)

Det3(M) ==
      M[1][1] * (M[2][2] * M[3][3] - M[2][3] * M[3][2])
    - M[1][2] * (M[2][1] * M[3][3] - M[2][3] * M[3][1])
    + M[1][3] * (M[2][1] * M[3][2] - M[2][2] * M[3][1])

\* The adjugate: inv(M) = Adj3(M) / Det3(M).
Adj3(M) ==
    << << M[2][2] * M[3][3] - M[2][3] * M[3][2],
          M[1][3] * M[3][2] - M[1][2] * M[3][3],
          M[1][2] * M[2][3] - M[1][3] * M[2][2] >>,
       << M[2][3] * M[3][1] - M[2][1] * M[3][3],
          M[1][1] * M[3][3] - M[1][3] * M[3][1],
          M[1][3] * M[2][1] - M[1][1] * M[2][3] >>,
       << M[2][1] * M[3][2] - M[2][2] * M[3][1],
          M[1][2] * M[3][1] - M[1][1] * M[3][2],
          M[1][1] * M[2][2] - M[1][2] * M[2][1] >> >>

--------------------------------------------------------------------------
(* transform_points and transform_grid (main.py:84-106, 174-200)           *)

\* One row of np.dot(points, H.T) (main.py:99-102): the homogeneous image
\* <<x, y, w>> of the point p = <<u, v>>.  A common scale of the matrix
\* cancels in the division of main.py:103, so M stands for M / M[3][3].
MapPoint(p, M) ==
    << M[1][1] * p[1] + M[1][2] * p[2] + M[1][3],
       M[2][1] * p[1] + M[2][2] * p[2] + M[2][3],
       M[3][1] * p[1] + M[3][2] * p[2] + M[3][3] >>

\* mapped_points of main.py:103-104: per point the homogeneous triple whose
\* coordinates are x / w and y / w (inf or nan where w = 0).
transform_points(points, M) == [k \in DOMAIN points |-> MapPoint(points[k], M)]

\* np.meshgrid and the flattening of main.py:194-198 for the ranges
\* arange(u_lo, u_lo + u_n) and arange(v_lo, v_lo + v_n): row-major, v outer.
GridPoints(u_lo, u_n, v_lo, v_n) ==
    [k \in 1..(u_n * v_n) |-> << u_lo + ((k - 1) % u_n), v_lo + ((k - 1) \div u_n) >>]

transform_grid(u_lo, u_n, v_lo, v_n, M) ==
    LET points == GridPoints(u_lo, u_n, v_lo, v_n)
    IN [points |-> points, mapped |-> transform_points(points, M)]

--------------------------------------------------------------------------
(* warp_image (main.py:203-268)                                            *)

\* RectBivariateSpline (main.py:248) fits bicubic splines, which need at
\* least 4 samples per axis: images are at least 4 x 4.
MinDim == 4

\* Upper bound on the image height and width.
MaxDim == 5

\* batch_size of fill_channel (main.py:247).
BatchSize == 64

Channels == 3

Identity3 == << <<1, 0, 0>>, <<0, 1, 0>>, <<0, 0, 1>> >>

Translation(tx, ty) == << <<1, 0, tx>>, <<0, 1, ty>>, <<0, 0, 1>> >>

Scaling(sn, sd) == << <<sn, 0, 0>>, <<0, sn, 0>>, <<0, 0, sd>> >>

\* The homographies warp_image is called with: M stands for H = M / M[3][3].
WarpHomographies ==
    { Identity3,
      Translation(3, 2), Translation(-2, -1), Translation(7, 0),
      Translation(0, -9),
      Scaling(2, 1), Scaling(3, 1), Scaling(3, 2),
      << <<2, 0, -3>>, <<0, 2, 1>>, <<0, 0, 2>> >>,     \* shift by (-1.5, 0.5)
      << <<2, 0, 0>>, <<0, 2, 0>>, <<1, 0, 2>> >>,      \* projective
      << <<1, 0, 0>>, <<0, 1, 0>>, <<-1, 0, 1>> >>,     \* maps u = 1 to infinity
      << <<1, 0, 0>>, <<0, 0, 0>>, <<0, 0, 1>> >> }     \* singular

\* image[v, u, c]: every pixel of the source image carries its own identity.
Pixel(v, u, c) == <<"px", v, u, c>>

\* I_cont(mapped_v, mapped_u, grid=False) (main.py:262) at the source
\* coordinate x / w, y / w of q = <<x, y, w>>: the spline interpolates, so on
\* a sample of the grid it returns that pixel; anywhere else it returns an
\* interpolated or extrapolated value the model does not distinguish.
I_cont(q, c) ==
    IF /\ q[3] # 0
       /\ q[1] % q[3] = 0
       /\ q[2] % q[3] = 0
       /\ (q[1] \div q[3]) \in 0..(image_shape[2] - 1)
       /\ (q[2] \div q[3]) \in 0..(image_shape[1] - 1)
    THEN Pixel(q[2] \div q[3], q[1] \div q[3], c)
    ELSE "interpolated"

\* transformed_image of main.py:230.
ForwardImage ==
    transform_grid(0, image_shape[2], 0, image_shape[1], H).mapped

ForwardU == {<<ForwardImage[k][1], ForwardImage[k][3]>> : k \in DOMAIN ForwardImage}

ForwardV == {<<ForwardImage[k][2], ForwardImage[k][3]>> : k \in DOMAIN ForwardImage}

TargetHeight == box.max_v - box.min_v

TargetWidth == box.max_u - box.min_u

\* len(inv_transformed_image): the number of pixels of the output.
NumPixels == TargetHeight * TargetWidth

\* transformed_points and inv_transformed_image of main.py:245.
InverseGrid ==
    transform_grid(box.min_u, TargetWidth, box.min_v, TargetHeight, H_inv)

\* n_iters of main.py:250.
n_iters == PyInt(<<NumPixels, BatchSize>>)

\* The loop does not drop the last, partial batch: range(n_iters + 1).
NumBatchesNoPlusOne == n_iters

\* range(n_iters + 1) of main.py:252: the number of passes of the loop.
NumBatches == n_iters + 1

\* The slice start:end of main.py:253-260 for batch b, clipped as Python clips
\* a slice to the length of the array; 1-based.
BatchIndices(b) ==
    { k \in (b * BatchSize + 1)..((b + 1) * BatchSize) : k <= NumPixels }

\* numpy's index rule for an axis of length n: -n..-1 wrap around.
WrapIndex(x, n) == IF x < 0 THEN x + n ELSE x

IndexOk(x, n) == x >= -n /\ x < n

InitWarp ==
    /\ image_shape \in (MinDim..MaxDim) \X (MinDim..MaxDim)
    /\ image_2_shape \in (MinDim..MaxDim) \X (MinDim..MaxDim)
    /\ H \in WarpHomographies
    /\ H_inv = <<>>
    /\ box = <<>>
    /\ target_image = <<>>
    /\ nwrites = <<>>
    /\ channel = 0
    /\ batch = 0
    /\ canvas = <<>>
    /\ wpc = "invert"
    /\ StitchIdle
    /\ RansacIdle

\* main.py:221-222.  np.linalg.inv raises LinAlgError on a singular matrix.
WarpInvert ==
    /\ wpc = "invert"
    /\ IF Det3(H) = 0
       THEN /\ wpc' = "singular_error"
            /\ UNCHANGED H_inv
       ELSE /\ H_inv' = Adj3(H)
            /\ wpc' = "bbox"
    /\ UNCHANGED <<image_shape, image_2_shape, H, box, target_image, nwrites,
                   channel, batch, canvas, stitchVars, ransacVars>>

\* main.py:227-242.  int() raises on nan and on inf, which the division of
\* main.py:103 produces where w = 0.
WarpBoundingBox ==
    /\ wpc = "bbox"
    /\ IF \E k \in DOMAIN ForwardImage : ForwardImage[k][3] = 0
       THEN /\ wpc' = "bbox_error"
            /\ UNCHANGED <<box, target_image, nwrites>>
       ELSE LET b == [min_u |-> PyInt(RatMin(ForwardU)),
                      max_u |-> PyInt(RatMax(ForwardU)),
                      min_v |-> PyInt(RatMin(ForwardV)),
                      max_v |-> PyInt(RatMax(ForwardV))]
                cells == (0..(b.max_v - b.min_v - 1))
                            \X (0..(b.max_u - b.min_u - 1))
                            \X (0..(Channels - 1))
            IN /\ box' = b
               /\ target_image' = [x \in cells |-> "zero"]
               /\ nwrites' = [x \in cells |-> 0]
               /\ wpc' = "fill"
    /\ UNCHANGED <<image_shape, image_2_shape, H, H_inv, channel, batch,
                   canvas, stitchVars, ransacVars>>

\* The cell target[v_batch - min_v, u_batch - min_u, channel] written for
\* point k of the output grid (main.py:259-262).
WriteCell(k) ==
    LET pt == InverseGrid.points[k]
    IN << pt[2] - box.min_v, pt[1] - box.min_u >>

\* The index pairs one pass of the loop assigns to, each with the point k
\* whose value it receives.
BatchWrites(b) == {<<WriteCell(k), k>> : k \in BatchIndices(b)}

\* One pass of the loop of main.py:252-262 for the current channel.  Where
\* one assignment names a cell twice, numpy keeps the last value.  (The
\* singleton quantifiers only name values that are used many times.)
FillBatch ==
    /\ wpc = "fill"
    /\ batch < NumBatches
    /\ \E raw \in {BatchWrites(batch)} :
          IF \E w \in raw : ~ (/\ IndexOk(w[1][1], TargetHeight)
                               /\ IndexOk(w[1][2], TargetWidth))
          THEN /\ wpc' = "index_error"
               /\ UNCHANGED <<target_image, nwrites, batch>>
          ELSE \E at \in {{<< << WrapIndex(w[1][1], TargetHeight),
                                 WrapIndex(w[1][2], TargetWidth),
                                 channel >>, w[2] >> : w \in raw}} :
               \E cells \in {{a[1] : a \in at}} :
               LET hit(x) == {a[2] : a \in {b \in at : b[1] = x}}
                   last(x) == CHOOSE k \in hit(x) : \A j \in hit(x) : j <= k
               IN /\ target_image' =
                        [x \in DOMAIN target_image |->
                            IF x \in cells
                            THEN I_cont(InverseGrid.mapped[last(x)], channel)
                            ELSE target_image[x]]
                  /\ nwrites' =
                        [x \in DOMAIN nwrites |->
                            IF x \in cells
                            THEN nwrites[x] + Cardinality(hit(x))
                            ELSE nwrites[x]]
                  /\ batch' = batch + 1
                  /\ UNCHANGED wpc
    /\ UNCHANGED <<image_shape, image_2_shape, H, H_inv, box, channel, canvas,
                   stitchVars, ransacVars>>

\* fill_channel returns and the next one is called (main.py:264-266).
NextChannel ==
    /\ wpc = "fill"
    /\ batch >= NumBatches
    /\ channel < Channels - 1
    /\ channel' = channel + 1
    /\ batch' = 0
    /\ UNCHANGED <<image_shape, image_2_shape, H, H_inv, box, target_image,
                   nwrites, canvas, wpc, stitchVars, ransacVars>>

\* return target_image, min_u, min_v (main.py:268)
WarpReturn ==
    /\ wpc = "fill"
    /\ batch >= NumBatches
    /\ channel = Channels - 1
    /\ wpc' = "warped"
    /\ UNCHANGED <<image_shape, image_2_shape, H, H_inv, box, target_image,
                   nwrites, channel, batch, canvas, stitchVars, ransacVars>>

--------------------------------------------------------------------------
(* The compositing of stitch_2_images (main.py:379-395)                    *)

\* The margins of the crop at main.py:393-394.
CropMarginV == 200

CropMarginU == 700

\* A Python slice start:stop of an axis of length n, 0 <= start <= stop:
\* both ends are clipped to n.
ClipSlice(start, stop, n) == << Min2(start, n), Min2(stop, n) >>

SliceLen(sl) == sl[2] - sl[1]

\* numpy assigns an array with `len` entries on an axis to a slice of that
\* axis when the lengths agree or the array's is 1 (broadcast); otherwise it
\* raises ValueError.
AssignOk(len, sl) == len = SliceLen(sl) \/ len = 1

\* main.py:381-385, 389-390
ComposeAlloc ==
    /\ wpc = "warped"
    /\ canvas' = [height |-> TargetHeight + image_2_shape[1],
                  width |-> TargetWidth + image_2_shape[2],
                  shift_u_1 |-> IF box.min_u > 0 THEN box.min_u ELSE 0,
                  shift_v_1 |-> IF box.min_v > 0 THEN box.min_v ELSE 0,
                  shift_u_2 |-> IF box.min_u < 0 THEN -box.min_u ELSE 0,
                  shift_v_2 |-> IF box.min_v < 0 THEN -box.min_v ELSE 0]
    /\ wpc' = "place_1"
    /\ UNCHANGED <<image_shape, image_2_shape, H, H_inv, box, target_image,
                   nwrites, channel, batch, stitchVars, ransacVars>>

\* The slices of res that main.py:387 assigns warpped_image_1 to.
WarpedRows ==
    ClipSlice(canvas.shift_v_1, TargetHeight + canvas.shift_v_1, canvas.height)

WarpedCols ==
    ClipSlice(canvas.shift_u_1, TargetWidth + canvas.shift_u_1, canvas.width)

\* The slices of res that main.py:391 assigns image_2 to.
Image2Rows ==
    ClipSlice(canvas.shift_v_2, image_2_shape[1] + canvas.shift_v_2, canvas.height)

Image2Cols ==
    ClipSlice(canvas.shift_u_2, image_2_shape[2] + canvas.shift_u_2, canvas.width)

\* main.py:387
PlaceWarped ==
    /\ wpc = "place_1"
    /\ wpc' = IF AssignOk(TargetHeight, WarpedRows) /\ AssignOk(TargetWidth, WarpedCols)
              THEN "place_2" ELSE "broadcast_error"
    /\ UNCHANGED <<image_shape, image_2_shape, H, H_inv, box, target_image,
                   nwrites, channel, batch, canvas, stitchVars, ransacVars>>

\* main.py:391
PlaceImage2 ==
    /\ wpc = "place_2"
    /\ wpc' = IF /\ AssignOk(image_2_shape[1], Image2Rows)
                 /\ AssignOk(image_2_shape[2], Image2Cols)
              THEN "crop" ELSE "broadcast_error"
    /\ UNCHANGED <<image_shape, image_2_shape, H, H_inv, box, target_image,
                   nwrites, channel, batch, canvas, stitchVars, ransacVars>>

\* main.py:393-395
CropReturn ==
    /\ wpc = "crop"
    /\ canvas' = [canvas EXCEPT
            !.height = Min2(@, Max2(image_shape[1], image_2_shape[1]) + CropMarginV),
            !.width = Min2(@, Max2(image_shape[2], image_2_shape[2]) + CropMarginU)]
    /\ wpc' = "done"
    /\ UNCHANGED <<image_shape, image_2_shape, H, H_inv, box, target_image,
                   nwrites, channel, batch, stitchVars, ransacVars>>

NextWarp ==
    \/ WarpInvert
    \/ WarpBoundingBox
    \/ FillBatch
    \/ NextChannel
    \/ WarpReturn
    \/ ComposeAlloc
    \/ PlaceWarped
    \/ PlaceImage2
    \/ CropReturn

SpecWarp == InitWarp /\ [][NextWarp]_vars

--------------------------------------------------------------------------
(* compute_points_mat and compute_homography_mat (main.py:26-81)           *)

RECURSIVE GCD(_, _)
GCD(a, b) == IF b = 0 THEN Abs(a) ELSE GCD(Abs(b), Abs(a) % Abs(b))

RECURSIVE TakePoints(_, _)
\* points[indices] for an index array in increasing order (1-based here).
TakePoints(points, indices) ==
    IF indices = {} THEN <<>>
    ELSE LET m == CHOOSE x \in indices : \A y \in indices : y <= x
         IN Append(TakePoints(points, indices \ {m}), points[m])

RECURSIVE PointRows(_, _, _)
\* The rows the loop of main.py:45-55 has filled after k correspondences.
PointRows(src, tgt, k) ==
    IF k = 0 THEN <<>>
    ELSE PointRows(src, tgt, k - 1) \o
         << <<src[k][1], src[k][2], 1, 0, 0, 0,
              -src[k][1] * tgt[k][1], -src[k][2] * tgt[k][1]>>,
            <<0, 0, 0, src[k][1], src[k][2], 1,
              -src[k][1] * tgt[k][2], -src[k][2] * tgt[k][2]>> >>

\* main.py:42-57: two rows per correspondence.
compute_points_mat(src, tgt) == PointRows(src, tgt, Len(src))

RECURSIVE FlattenPoints(_)
\* np.ndarray.flatten(np.array(target_points)) (main.py:76)
FlattenPoints(tgt) ==
    IF tgt = <<>> THEN <<>>
    ELSE <<tgt[1][1], tgt[1][2]>> \o FlattenPoints(Tail(tgt))

RECURSIVE SrcOfRows(_)
\* The correspondences a system A h = b of compute_points_mat was built from.
SrcOfRows(A) ==
    IF Len(A) < 2 THEN <<>>
    ELSE << <<A[1][1], A[1][2]>> >> \o SrcOfRows(Tail(Tail(A)))

RECURSIVE TgtOfRows(_)
TgtOfRows(b) ==
    IF Len(b) < 2 THEN <<>>
    ELSE << <<b[1], b[2]>> >> \o TgtOfRows(Tail(Tail(b)))

\* The matrix with the columns (p1, 1), (p2, 1), (p3, 1).
Cols3(p1, p2, p3) ==
    << <<p1[1], p2[1], p3[1]>>, <<p1[2], p2[2], p3[2]>>, <<1, 1, 1>> >>

RowVec3(row, v) == row[1] * v[1] + row[2] * v[2] + row[3] * v[3]

MatVec3(M, v) == <<RowVec3(M[1], v), RowVec3(M[2], v), RowVec3(M[3], v)>>

RowMat3(row, Y) ==
    << row[1] * Y[1][1] + row[2] * Y[2][1] + row[3] * Y[3][1],
       row[1] * Y[1][2] + row[2] * Y[2][2] + row[3] * Y[3][2],
       row[1] * Y[1][3] + row[2] * Y[2][3] + row[3] * Y[3][3] >>

MatMul3(X, Y) == <<RowMat3(X[1], Y), RowMat3(X[2], Y), RowMat3(X[3], Y)>>

\* The gcd of the entries of a matrix.
GCD9(M) ==
    GCD(GCD(GCD(M[1][1], M[1][2]), GCD(M[1][3], M[2][1])),
        GCD(GCD(GCD(M[2][2], M[2][3]), GCD(M[3][1], M[3][2])), M[3][3]))

\* M divided by g > 0, with the sign that makes the last entry non-negative.
DivRow3(row, g) == <<row[1] \div g, row[2] \div g, row[3] \div g>>

DivMat3(M, g) ==
    IF M[3][3] < 0
    THEN <<DivRow3(M[1], -g), DivRow3(M[2], -g), DivRow3(M[3], -g)>>
    ELSE <<DivRow3(M[1], g), DivRow3(M[2], g), DivRow3(M[3], g)>>

\* The same projective map with coprime entries.
Reduce3(M) == With2(M, Max2(GCD9(M), 1), DivMat3)

DivVec3(v, g) == <<v[1] \div g, v[2] \div g, v[3] \div g>>

ReduceVec3(v) == DivVec3(v, Max2(GCD(GCD(v[1], v[2]), v[3]), 1))

\* Four points no three of which are collinear.
GeneralPosition(p) ==
    \A a, b, c \in 1..4 :
        (a < b /\ b < c) => With(Cols3(p[a], p[b], p[c]), Det3) # 0

\* adj(P) (p4, 1) for the matrix P of the first three of four points: the
\* fourth point in the projective frame of the first three, up to scale.
FrameCoords(p) ==
    With2(With(Cols3(p[1], p[2], p[3]), Adj3), <<p[4][1], p[4][2], 1>>, MatVec3)

\* The column scales mu1 la2 la3, mu2 la1 la3, mu3 la1 la2.
FrameScales(la, mu) ==
    With(<<mu[1] * la[2] * la[3], mu[2] * la[1] * la[3], mu[3] * la[1] * la[2]>>,
         ReduceVec3)

ScaleRow3(row, dg) == <<row[1] * dg[1], row[2] * dg[2], row[3] * dg[3]>>

ScaleCols3(Q, dg) ==
    <<ScaleRow3(Q[1], dg), ScaleRow3(Q[2], dg), ScaleRow3(Q[3], dg)>>

\* The projective map that takes the four points p to the four points q,
\* both in general position, as an integer matrix up to scale:
\*     Q diag(mu1 la2 la3, mu2 la1 la3, mu3 la1 la2) adj(P)
\* with la = adj(P) (p4, 1) and mu = adj(Q) (q4, 1).
FourPointMap(p, q) ==
    With(MatMul3(ScaleCols3(Cols3(q[1], q[2], q[3]),
                            With2(FrameCoords(p), FrameCoords(q), FrameScales)),
                 With(Cols3(p[1], p[2], p[3]), Adj3)),
         Reduce3)

\* M maps the point p exactly onto the point q.
MapsExactly(M, p, q) ==
    (M[3][1] * p[1] + M[3][2] * p[2] + M[3][3]) # 0
    /\ (M[1][1] * p[1] + M[1][2] * p[2] + M[1][3])
          = q[1] * (M[3][1] * p[1] + M[3][2] * p[2] + M[3][3])
    /\ (M[2][1] * p[1] + M[2][2] * p[2] + M[2][3])
          = q[2] * (M[3][1] * p[1] + M[3][2] * p[2] + M[3][3])

RECURSIVE SumCoord(_, _, _)
\* The sum of coordinate c of the points q[1..k].
SumCoord(q, k, c) ==
    IF k = 0 THEN 0 ELSE q[k][c] + SumCoord(q, k - 1, c)

\* The value lstsq is not computed for (see lstsq).
NoSolution == [num |-> <<>>, den |-> 0]

\* The solution that is the map M scaled to last entry 1, where M has a
\* non-zero last entry and fits all the correspondences exactly.
ExactSolution(M, p, q) ==
    IF M[3][3] # 0 /\ \A j \in DOMAIN p : MapsExactly(M, p[j], q[j])
    THEN [num |-> <<M[1][1], M[1][2], M[1][3], M[2][1], M[2][2], M[2][3],
                    M[3][1], M[3][2]>>,
          den |-> M[3][3]]
    ELSE NoSolution

\* The least-squares solution of minimum norm for the correspondences p -> q.
MinNormSolution(p, q) ==
    IF Len(p) = 0
    THEN [num |-> <<0, 0, 0, 0, 0, 0, 0, 0>>, den |-> 1]
    ELSE IF \A j \in DOMAIN p : p[j] = <<0, 0>>
    THEN [num |-> <<0, 0, SumCoord(q, Len(q), 1), 0, 0, SumCoord(q, Len(q), 2), 0, 0>>,
          den |-> Len(p)]
    ELSE IF Len(p) >= 4 /\ GeneralPosition(p) /\ GeneralPosition(q)
    THEN With(FourPointMap(p, q), LAMBDA M : ExactSolution(M, p, q))
    ELSE NoSolution

\* np.linalg.lstsq(A, b, None)[0] (main.py:78): the least-squares solution of
\* minimum norm, as the exact rational vector num / den.  lstsq does not
\* raise on a rank-deficient A.  The solution is computed in closed form for
\* the systems this model meets:
\*   - no rows: numpy fills the solution with zeros;
\*   - every source point is the origin: the rows reduce to h3 = x_t and
\*     h6 = y_t, so h3 and h6 are the means of the targets and the
\*     minimum-norm solution has zeros elsewhere;
\*   - the first four correspondences are in general position on both sides,
\*     A has rank 8 (the map of the four points has a non-zero last entry) and
\*     the map fits every correspondence exactly: the residual is zero and
\*     the solution is the map scaled to last entry 1.
\* For any other system the operator yields NoSolution and the actions that
\* would need it are disabled.
lstsq(A, b) == With2(SrcOfRows(A), TgtOfRows(b), MinNormSolution)

\* np.concatenate([H, [1]]).reshape(3, 3) (main.py:79-80).  The result is the
\* integer matrix M that stands for H = M / M[3][3]: appending 1 makes the
\* denominator the last entry.
Reshape33(h) ==
    IF h = NoSolution THEN <<>>
    ELSE << <<h.num[1], h.num[2], h.num[3]>>,
            <<h.num[4], h.num[5], h.num[6]>>,
            <<h.num[7], h.num[8], h.den>> >>

\* main.py:75-81
compute_homography_mat(src, tgt) ==
    With(With2(compute_points_mat(src, tgt), FlattenPoints(tgt), lstsq),
         Reshape33)

\* The input the estimation has no unique answer for: fewer than four
\* correspondences, or source points that all lie on one line.
Collinear(points) ==
    \A a, b, c \in DOMAIN points :
        With(Cols3(points[a], points[b], points[c]), Det3) = 0

Degenerate(src) == Len(src) < 4 \/ Collinear(src)

--------------------------------------------------------------------------
(* get_inliers (main.py:109-170) and the estimation that follows it in     *)
(* stitch_2_images (main.py:364-375)                                       *)

\* Upper bound on the argument N.
MaxRounds == 2

\* The defaults d=1 and s=4 of main.py:109, which the only caller uses
\* (main.py:364).
d == 1

s == 4

\* The cap of the threshold at main.py:136.
RefineCap == 10

\* The default T=None of main.py:109.
NoArgument == -1

Origin(n) == [k \in 1..n |-> <<0, 0>>]

\* The correspondence lists get_inliers is called with.
Datasets ==
    { \* five correspondences of the translation by (2, 2) and one off it
      [src |-> << <<2, 3>>, <<2, 4>>, <<4, 0>>, <<3, 4>>, <<1, 3>>, <<1, 1>> >>,
       tgt |-> << <<4, 5>>, <<6, 0>>, <<6, 2>>, <<5, 6>>, <<3, 5>>, <<3, 3>> >>],
      \* six correspondences of the translation by (2, 2)
      [src |-> << <<2, 3>>, <<2, 4>>, <<4, 0>>, <<3, 4>>, <<1, 3>>, <<1, 1>> >>,
       tgt |-> << <<4, 5>>, <<4, 6>>, <<6, 2>>, <<5, 6>>, <<3, 5>>, <<3, 3>> >>],
      \* one source point matched to four different targets
      [src |-> Origin(4),
       tgt |-> << <<0, 0>>, <<10, 0>>, <<0, 10>>, <<10, 10>> >>],
      \* one source point matched to five targets on a line
      [src |-> Origin(5),
       tgt |-> << <<0, 0>>, <<0, 0>>, <<16, 0>>, <<16, 0>>, <<8, 0>> >>],
      \* one source point matched ten times to (3, 3) and once to (43, 3)
      [src |-> Origin(11),
       tgt |-> [k \in 1..11 |-> IF k = 11 THEN <<43, 3>> ELSE <<3, 3>>]],
      \* fewer correspondences than one sample takes
      [src |-> << <<2, 3>>, <<2, 4>>, <<4, 0>> >>,
       tgt |-> << <<4, 5>>, <<4, 6>>, <<6, 2>> >>] }

\* The values the caller passes for T.
ThresholdArguments == {NoArgument, 0, 20}

\* The threshold is not taken from the argument T.
ThresholdFromArgument ==
    IF T_arg = NoArgument THEN Min2(Len(src_points), RefineCap) ELSE T_arg

\* T = min(len(src_points), 10) (main.py:136): the argument T is overwritten.
Threshold == Min2(Len(src_points), RefineCap)

\* np.where(dist <= d)[0] (main.py:149-150) for the homography M: the
\* distance of x / w, y / w to the target is compared exactly; where w = 0 the
\* distance is inf or nan and the comparison is False.
InlierIndices(M) ==
    { k \in 1..Len(src_points) :
        LET m == MapPoint(src_points[k], M)
            a == m[1] - target_points[k][1] * m[3]
            b == m[2] - target_points[k][2] * m[3]
        IN m[3] # 0 /\ a * a + b * b <= d * d * m[3] * m[3] }

\* The homography _get_inlier_indices fits (main.py:144).
FitOf(indices) ==
    With2(TakePoints(src_points, indices), TakePoints(target_points, indices),
          compute_homography_mat)

\* main.py:142-151
_get_inlier_indices(indices) == With(FitOf(indices), InlierIndices)

\* The index arrays np.random.choice(len(src_points), s, replace=False) can
\* return (main.py:155), up to their order, which the fit does not depend on.
Samples == {S \in SUBSET (1..Len(src_points)) : Cardinality(S) = s}

\* The loop stops on a round that reaches the threshold.
LoopDoneEarly ==
    \/ round >= N
    \/ \E k \in 1..Len(num_inliers_history) : num_inliers_history[k] >= T

\* range(N) is exhausted (main.py:154).
LoopDone == round >= N

\* The first recorded candidate.
FirstCandidate(nums) == 1

\* np.argmax (main.py:169): the first position of the maximum, 1-based.
ArgMax(nums) ==
    CHOOSE k \in 1..Len(nums) :
        /\ \A j \in 1..Len(nums) : nums[j] <= nums[k]
        /\ \A j \in 1..(k - 1) : nums[j] < nums[k]

\* The recorded index arrays do not all have one length.
Ragged(history) ==
    \E a, b \in 1..Len(history) : Cardinality(history[a]) # Cardinality(history[b])

\* What one call of compute_homography_mat was given and whether it returned
\* a matrix.
FitCall(site, indices) ==
    [site |-> site,
     k |-> Cardinality(indices),
     degenerate |-> With(TakePoints(src_points, indices), Degenerate),
     returned |-> TRUE]

InitRansac ==
    /\ \E ds \in Datasets :
          /\ src_points = ds.src
          /\ target_points = ds.tgt
    /\ N \in 0..MaxRounds
    /\ T_arg \in ThresholdArguments
    /\ T = T_arg
    /\ samples_indices_history = <<>>
    /\ num_inliers_history = <<>>
    /\ round = 0
    /\ round_log = <<>>
    /\ fit_calls = {}
    /\ best_indices = {}
    /\ inlier_src = <<>>
    /\ inlier_target = <<>>
    /\ H_fit = <<>>
    /\ rpc = "enter"
    /\ StitchIdle
    /\ WarpIdle

\* main.py:130-140
RansacEnter ==
    /\ rpc = "enter"
    /\ Len(src_points) = Len(target_points)
    /\ T' = Threshold
    /\ samples_indices_history' = <<>>
    /\ num_inliers_history' = <<>>
    /\ rpc' = "loop"
    /\ UNCHANGED <<src_points, target_points, N, T_arg, round, round_log,
                   fit_calls, best_indices, inlier_src, inlier_target, H_fit,
                   stitchVars, warpVars>>

\* One pass of the loop at main.py:154-164, the refinement included.
SampleRound ==
    /\ rpc = "loop"
    /\ ~ LoopDone
    /\ s <= Len(src_points)
    /\ \E indices \in Samples :
          /\ FitOf(indices) # <<>>
          /\ \E inlier_indices \in {_get_inlier_indices(indices)} :
                LET count == Cardinality(inlier_indices)
                    pos == Len(samples_indices_history) + 1
                IN IF count >= T
                   THEN /\ FitOf(inlier_indices) # <<>>
                        /\ \E refined \in {_get_inlier_indices(inlier_indices)} :
                              /\ samples_indices_history' =
                                    samples_indices_history \o <<inlier_indices, refined>>
                              /\ num_inliers_history' =
                                    num_inliers_history \o <<count, Cardinality(refined)>>
                        /\ round_log' = Append(round_log,
                              [pos |-> pos, count |-> count, refined |-> TRUE])
                        /\ fit_calls' = fit_calls \cup
                              {FitCall("sample", indices), FitCall("refit", inlier_indices)}
                   ELSE /\ samples_indices_history' =
                              Append(samples_indices_history, inlier_indices)
                        /\ num_inliers_history' = Append(num_inliers_history, count)
                        /\ round_log' = Append(round_log,
                              [pos |-> pos, count |-> count, refined |-> FALSE])
                        /\ fit_calls' = fit_calls \cup {FitCall("sample", indices)}
    /\ round' = round + 1
    /\ UNCHANGED <<src_points, target_points, N, T_arg, T, best_indices,
                   inlier_src, inlier_target, H_fit, rpc, stitchVars, warpVars>>

\* np.random.choice raises ValueError when asked for more distinct indices
\* than there are (main.py:155).
SampleError ==
    /\ rpc = "loop"
    /\ ~ LoopDone
    /\ s > Len(src_points)
    /\ rpc' = "sample_error"
    /\ UNCHANGED <<src_points, target_points, N, T_arg, T,
                   samples_indices_history, num_inliers_history, round,
                   round_log, fit_calls, best_indices, inlier_src,
                   inlier_target, H_fit, stitchVars, warpVars>>

\* main.py:167-170.  np.argmax raises ValueError on an empty history (N = 0).
SelectBest ==
    /\ rpc = "loop"
    /\ LoopDone
    /\ IF Len(num_inliers_history) = 0
       THEN /\ rpc' = "argmax_error"
            /\ UNCHANGED <<best_indices, inlier_src, inlier_target>>
       ELSE \E best \in {samples_indices_history[ArgMax(num_inliers_history)]} :
               /\ best_indices' = best
               /\ inlier_src' = TakePoints(src_points, best)
               /\ inlier_target' = TakePoints(target_points, best)
               /\ rpc' = "returned"
    /\ UNCHANGED <<src_points, target_points, N, T_arg, T,
                   samples_indices_history, num_inliers_history, round,
                   round_log, fit_calls, H_fit, stitchVars, warpVars>>

\* np.array(samples_indices_history) (main.py:167) of index arrays of
\* different lengths builds an array of objects in the numpy releases that
\* allow it (SelectBest) and raises ValueError in numpy 1.24 and later.
RaggedError ==
    /\ rpc = "loop"
    /\ LoopDone
    /\ Ragged(samples_indices_history)
    /\ rpc' = "ragged_error"
    /\ UNCHANGED <<src_points, target_points, N, T_arg, T,
                   samples_indices_history, num_inliers_history, round,
                   round_log, fit_calls, best_indices, inlier_src,
                   inlier_target, H_fit, stitchVars, warpVars>>

\* H = compute_homography_mat(inlier_src, inlier_target) (main.py:375)
FinalFit ==
    /\ rpc = "returned"
    /\ FitOf(best_indices) # <<>>
    /\ H_fit' = FitOf(best_indices)
    /\ fit_calls' = fit_calls \cup {FitCall("final", best_indices)}
    /\ rpc' = "fitted"
    /\ UNCHANGED <<src_points, target_points, N, T_arg, T,
                   samples_indices_history, num_inliers_history, round,
                   round_log, best_indices, inlier_src, inlier_target,
                   stitchVars, warpVars>>

\* lstsq on a system without rows raises LinAlgError in the numpy releases
\* that reject empty arrays, and returns zeros in the others (FinalFit).
FinalFitEmptyError ==
    /\ rpc = "returned"
    /\ best_indices = {}
    /\ fit_calls' = fit_calls \cup
          {[FitCall("final", best_indices) EXCEPT !.returned = FALSE]}
    /\ rpc' = "lstsq_error"
    /\ UNCHANGED <<src_points, target_points, N, T_arg, T,
                   samples_indices_history, num_inliers_history, round,
                   round_log, best_indices, inlier_src, inlier_target, H_fit,
                   stitchVars, warpVars>>

NextRansac ==
    \/ RansacEnter
    \/ SampleRound
    \/ SampleError
    \/ SelectBest
    \/ RaggedError
    \/ FinalFit
    \/ FinalFitEmptyError

SpecRansac == InitRansac /\ [][NextRansac]_vars

--------------------------------------------------------------------------
(* Claims about stitch_N_images *)

\* C1: over N >= 3 images the pairwise stitches are chained: the canvas of
\* stitch k is one of the two inputs of stitch k+1, and the canvas returned
\* at the end is computed from all N input images.
C1_ChainFeedsForward ==
    (spc = "done" /\ Len(paths0) >= 3) =>
        /\ \A k \in 1..(Len(log) - 1) :
                log[k].out \in {log[k + 1].in1, log[k + 1].in2}
        /\ res.deps = Range(paths0)

--------------------------------------------------------------------------
(* Claims about warp_image and the compositing *)

WarpFinished == wpc \in {"warped", "place_1", "place_2", "crop", "done",
                         "broadcast_error"}

BoxComputed == wpc = "fill" \/ WarpFinished

\* C4: with the identity homography warp_image returns min_u = min_v = 0 and
\* an output of the input's height and width whose pixel (v, u) is the
\* input's pixel (v, u).
C4_IdentityWarpReturnsInput ==
    (wpc = "warped" /\ H = Identity3) =>
        /\ box.min_u = 0
        /\ box.min_v = 0
        /\ TargetHeight = image_shape[1]
        /\ TargetWidth = image_shape[2]
        /\ \A v \in 0..(image_shape[1] - 1), u \in 0..(image_shape[2] - 1),
              c \in 0..(Channels - 1) :
                /\ <<v, u, c>> \in DOMAIN target_image
                /\ target_image[<<v, u, c>>] = Pixel(v, u, c)

\* C6: the canvas of stitch_2_images holds both placements: the rectangle of
\* the warped image shifted by (max(min_u,0), max(min_v,0)) and the rectangle
\* of image_2 shifted by (max(-min_u,0), max(-min_v,0)) lie inside it.
C6_CanvasHoldsBothRectangles ==
    (wpc \in {"place_1", "place_2", "crop"}) =>
        /\ canvas.shift_v_1 + TargetHeight <= canvas.height
        /\ canvas.shift_u_1 + TargetWidth <= canvas.width
        /\ canvas.shift_v_2 + image_2_shape[1] <= canvas.height
        /\ canvas.shift_u_2 + image_2_shape[2] <= canvas.width

\* C8: the bounding box is the floor of the minimum and the ceiling of the
\* maximum forward-mapped coordinate, so every forward-mapped source pixel
\* lies inside [min_u, max_u] x [min_v, max_v].
C8_BoxIsFloorCeil ==
    BoxComputed =>
        /\ box.min_u = Floor(RatMin(ForwardU))
        /\ box.max_u = Ceil(RatMax(ForwardU))
        /\ box.min_v = Floor(RatMin(ForwardV))
        /\ box.max_v = Ceil(RatMax(ForwardV))
        /\ \A q \in ForwardU : RatLeq(<<box.min_u, 1>>, q) /\ RatLeq(q, <<box.max_u, 1>>)
        /\ \A q \in ForwardV : RatLeq(<<box.min_v, 1>>, q) /\ RatLeq(q, <<box.max_v, 1>>)

\* C9: the batches of fill_channel are pairwise disjoint and cover the
\* output pixels 0..P-1, every write lands inside the output array, and when
\* warp_image returns every pixel of every channel was written exactly once.
C9_EveryPixelWrittenOnce ==
    /\ wpc # "index_error"
    /\ BoxComputed =>
        /\ \A k \in 1..NumPixels :
              Cardinality({b \in 0..(NumBatches - 1) : k \in BatchIndices(b)}) = 1
        /\ \A b \in 0..(NumBatches - 1) : BatchIndices(b) \subseteq 1..NumPixels
        /\ \A x \in DOMAIN nwrites : nwrites[x] <= 1
        /\ WarpFinished => \A x \in DOMAIN nwrites : nwrites[x] = 1

\* A returned output of more than one batch whose last batch is partial.
C9_Witness ==
    /\ wpc = "warped"
    /\ NumPixels > BatchSize
    /\ NumPixels % BatchSize # 0
    /\ \A x \in DOMAIN nwrites : nwrites[x] = 1

--------------------------------------------------------------------------
(* Claims about get_inliers and compute_homography_mat *)

\* get_inliers has returned to stitch_2_images.
Returned == rpc \in {"returned", "fitted", "lstsq_error"}

\* The loop of get_inliers has been left.
PastLoop == Returned \/ rpc \in {"ragged_error", "argmax_error"}

\* C2: the subsets get_inliers returns are the points of one recorded
\* candidate whose recorded count is the largest of all recorded counts, and
\* both subsets are selected by that candidate's index set.
C2_ReturnsLargestCandidate ==
    Returned =>
        /\ \A j \in 1..Len(samples_indices_history) :
              num_inliers_history[j] = Cardinality(samples_indices_history[j])
        /\ \E k \in 1..Len(samples_indices_history) :
              /\ best_indices = samples_indices_history[k]
              /\ \A j \in 1..Len(num_inliers_history) :
                    num_inliers_history[j] <= num_inliers_history[k]
              /\ inlier_src = TakePoints(src_points, samples_indices_history[k])
              /\ inlier_target = TakePoints(target_points, samples_indices_history[k])

\* A return where the first recorded candidate is not a largest one.
C2_Witness ==
    /\ rpc = "returned"
    /\ Len(num_inliers_history) >= 2
    /\ num_inliers_history[1] < Cardinality(best_indices)
    /\ Len(inlier_src) = Cardinality(best_indices)

\* C3: for L >= s correspondences the inlier set get_inliers returns has at
\* least s elements.
C3_ReturnsAtLeastSampleSize ==
    (Returned /\ Len(src_points) >= s) =>
        /\ Cardinality(best_indices) >= s
        /\ Len(inlier_src) >= s
        /\ Len(inlier_target) >= s

\* C5: compute_homography_mat returns no matrix when it is given fewer than
\* four correspondences or collinear source points.
C5_DegenerateFitFails ==
    \A c \in fit_calls : c.degenerate => ~ c.returned

\* C7: get_inliers leaves its loop only after exactly N rounds, with between
\* N and 2N recorded candidates; a round that reaches the threshold does not
\* end the loop.
C7_RunsFullBudget ==
    /\ Len(round_log) = round
    /\ Len(samples_indices_history) >= round
    /\ Len(samples_indices_history) <= 2 * round
    /\ Len(num_inliers_history) = Len(samples_indices_history)
    /\ round <= N
    /\ PastLoop => round = N

\* A return after at least two rounds the first of which reached the
\* threshold.
C7_Witness ==
    /\ rpc = "returned"
    /\ N >= 2
    /\ round = N
    /\ round_log[1].count >= T

\* The position of the sample candidate of the round after round r.
NextPos(r) ==
    IF r < Len(round_log) THEN round_log[r + 1].pos
    ELSE Len(samples_indices_history) + 1

==========================================================================
